---- MODULE Spec2Model ----
(***************************************************************************)
(* CVEWB (src/main.py): the aggregation-and-enrichment pipeline.           *)
(*                                                                         *)
(* The FastAPI handlers are coroutines on one event loop: a handler runs   *)
(* without interruption from one await to the next.  Each action below is  *)
(* one such run: it starts where a coroutine is resumed (an HTTP response  *)
(* or failure arrives, or the request arrives) and ends at the next await  *)
(* or at the handler's return.  The outcome of every outbound call, the    *)
(* passage of time and the outcome of a file write are the environment's   *)
(* choice and are parameters of the actions.                               *)
(***************************************************************************)
EXTENDS Integers, Sequences, FiniteSets, TLC

VARIABLES
    now,        \* datetime.now(), in whole hours since start-up
    cache,      \* the files of CACHE_DIR: kev.json and github_advisories.json
    ai_config,  \* the global ai_config
    tasks       \* the frame of each analyze_cve coroutine

vars == <<now, cache, ai_config, tasks>>

----------------------------------------------------------------------------
(* Bounds of the model *)

\* The clock stops at MaxTime hours.
MaxTime == 5

(* Program constants *)

\* is_cache_valid(filepath, hours=4)
CacheHours == 4

----------------------------------------------------------------------------
(* Python values.  Optional[...] is the empty or the one-element tuple. *)

None == <<>>
Some(x) == <<x>>
IsNone(o) == Len(o) = 0
The(o) == o[1]

Min(S) == CHOOSE x \in S : \A y \in S : x <= y

\* The two analyze_cve coroutines the model has frames for.
Reqs == {1, 2}

\* Identifiers a caller may send: two that differ only in case.
CveIds == {"CVE-2021-44228", "cve-2021-44228"}

----------------------------------------------------------------------------
(* What upstream may answer *)

KevEntry(id, n) == [cveID |-> id, entry |-> n]
Advisory(n, ids) == [ghsa_id |-> n, cves |-> [i \in 1..Len(ids) |-> [number |-> ids[i]]]]

\* Two versions of the known-exploited catalogue.
KevPayloads ==
    { [vulnerabilities |-> <<KevEntry("CVE-2021-44228", 1), KevEntry("CVE-2021-44228", 2)>>],
      [vulnerabilities |-> <<KevEntry("cve-2021-44228", 3)>>] }

\* Two versions of the advisory index.
GithubPayloads ==
    { <<Advisory(1, <<>>), Advisory(2, <<"cve-2021-44228", "CVE-2021-44228">>)>>,
      <<Advisory(3, <<"CVE-2021-44228">>)>> }

\* cvssData of a metric: each key is there (Some) or not (None)
CvssData(score, severity, vector) ==
    [baseScore |-> score, baseSeverity |-> severity, vectorString |-> vector]

\* An entry of "vulnerabilities", by what the prompt builders read of it:
\* the "value" of each of cve.descriptions, and the lists of cve.metrics
\* by scoring-schema version (None: no such key).  This one has at most
\* the key cvssMetricV31.
Vulnerability(descriptions, cvssMetricV31) ==
    [descriptions |-> descriptions, cvssMetricV40 |-> None,
     cvssMetricV31 |-> cvssMetricV31, cvssMetricV3 |-> None]

\* The entry with metrics of other schema versions as well
OtherMetrics(vuln, cvssMetricV40, cvssMetricV3) ==
    [vuln EXCEPT !.cvssMetricV40 = cvssMetricV40, !.cvssMetricV3 = cvssMetricV3]

\* Two answers of the primary database: a full record, and one with an
\* empty cvssMetricV31 list
NvdBasicPayloads ==
    { [vulnerabilities |->
        <<Vulnerability(<<Some("Log4Shell")>>,
                        Some(<<CvssData(Some("10.0"), Some("CRITICAL"), Some("CVSS:3.1/AV:N"))>>))>>],
      [vulnerabilities |-> <<Vulnerability(<<Some("Log4Shell")>>, Some(<<>>))>>] }

\* The primary database's answers: the two above; a record without
\* descriptions and metrics; one whose cvssData has no score, severity or
\* vector; an empty list; and records with metrics of two schema versions,
\* or of the older one only.
NvdPayloads ==
    NvdBasicPayloads \cup
    { [vulnerabilities |-> <<Vulnerability(<<>>, None)>>],
      [vulnerabilities |->
        <<Vulnerability(<<None>>, Some(<<CvssData(None, None, None)>>))>>],
      [vulnerabilities |-> <<>>],
      [vulnerabilities |->
        <<OtherMetrics(
            Vulnerability(<<Some("Log4Shell")>>,
                          Some(<<CvssData(Some("10.0"), Some("CRITICAL"), Some("CVSS:3.1/AV:N"))>>)),
            None,
            Some(<<CvssData(Some("9.8"), Some("HIGH"), Some("CVSS:3.0/AV:N"))>>))>>],
      [vulnerabilities |->
        <<OtherMetrics(
            Vulnerability(<<Some("Log4Shell")>>, None),
            None,
            Some(<<CvssData(Some("9.8"), Some("HIGH"), Some("CVSS:3.0/AV:N"))>>))>>],
      [vulnerabilities |->
        <<OtherMetrics(
            Vulnerability(<<Some("Log4Shell")>>,
                          Some(<<CvssData(Some("10.0"), Some("CRITICAL"), Some("CVSS:3.1/AV:N"))>>)),
            Some(<<CvssData(Some("9.3"), Some("MEDIUM"), Some("CVSS:4.0/AV:N"))>>),
            None)>>] }

\* The exploit-score service's answers: with a score, and an entry
\* without the key "epss"
EpssPayloads == { [data |-> <<[epss |-> Some("0.97")]>>], [data |-> <<[epss |-> None]>>] }

Feeds == {"kev", "github"}

Payloads(f) == IF f = "kev" THEN KevPayloads ELSE GithubPayloads

\* {"vulnerabilities": []} (line 110) and [] (line 131)
EmptyResult(f) == IF f = "kev" THEN [vulnerabilities |-> <<>>] ELSE <<>>

\* An HTTP exchange ends in a response or in an httpx exception.
Response(status, body) ==
    [kind |-> "response", status_code |-> status, body |-> body, exc |-> ""]
Raised(type) == [kind |-> "raise", status_code |-> 0, body |-> None, exc |-> type]

FeedOutcomes(f) ==
    {Response(200, Some(p)) : p \in Payloads(f)}
        \cup {Response(503, None), Raised("ConnectError")}

NvdOutcomes ==
    {Response(200, Some(p)) : p \in NvdPayloads}
        \cup {Response(404, None), Raised("ConnectError")}

EpssOutcomes ==
    {Response(200, Some(p)) : p \in EpssPayloads}
        \cup {Response(503, None), Raised("ConnectError")}

\* The outcomes of the two per-identifier fetches with the payloads that
\* matter to the aggregation: the basic records, and an exploit score
BasicNvdOutcomes == {o \in NvdOutcomes : IsNone(o.body) \/ The(o.body) \in NvdBasicPayloads}
BasicEpssOutcomes ==
    {o \in EpssOutcomes : o.body # Some([data |-> <<[epss |-> None]>>])}

\* open(cache_file, "w") followed by json.dump: the write completes, open
\* fails (the file is untouched), or json.dump fails after open truncated
\* the file, at once or before the last chunk.
WriteOutcomes == {"ok", "open_fails", "dump_fails_early", "dump_fails_late"}

----------------------------------------------------------------------------
(* json.dump and json.load on a cache file.  The text of a file is the     *)
(* sequence of chunks json.dump writes.                                    *)

Tok(s) == [tok |-> s, val |-> <<>>]
Val(v) == [tok |-> "value", val |-> <<v>>]

Values(list) == [i \in 1..Len(list) |-> Val(list[i])]

\* json.dump(data, f) of the known-exploited catalogue, a dict (line 108)
json_dump_object(data) ==
    <<Tok("{"), Tok("vulnerabilities"), Tok("[")>>
        \o Values(data.vulnerabilities) \o <<Tok("]"), Tok("}")>>

\* json.dump(data, f) of the advisory index, a list (line 129)
json_dump_array(data) == <<Tok("[")>> \o Values(data) \o <<Tok("]")>>

json_dump(f, data) ==
    IF f = "kev" THEN json_dump_object(data) ELSE json_dump_array(data)

AllValues(text, from, to) == \A i \in from..to : text[i].tok = "value"
Unwrap(text, from, to) == [i \in 1..(to - from + 1) |-> text[from + i - 1].val[1]]

\* json.load(f): the value, or JSONDecodeError on a text that is no
\* complete JSON document.
json_load(text) ==
    LET n == Len(text) IN
    IF /\ n >= 2
       /\ text[1] = Tok("[")
       /\ text[n] = Tok("]")
       /\ AllValues(text, 2, n - 1)
    THEN [ok |-> TRUE, value |-> Unwrap(text, 2, n - 1)]
    ELSE IF /\ n >= 5
            /\ text[1] = Tok("{")
            /\ text[2] = Tok("vulnerabilities")
            /\ text[3] = Tok("[")
            /\ text[n - 1] = Tok("]")
            /\ text[n] = Tok("}")
            /\ AllValues(text, 4, n - 2)
    THEN [ok |-> TRUE, value |-> [vulnerabilities |-> Unwrap(text, 4, n - 2)]]
    ELSE [ok |-> FALSE, value |-> <<>>]

----------------------------------------------------------------------------
(* Cache management *)

NoFile == [exists |-> FALSE, text |-> <<>>, mtime |-> 0]

\* is_cache_valid with <= for <: an entry exactly CacheHours old passes
is_cache_valid_inclusive(file, t) ==
    IF ~file.exists THEN FALSE ELSE t - file.mtime <= CacheHours

\* is_cache_valid(filepath, hours=4)
is_cache_valid(file, t) ==
    IF ~file.exists THEN FALSE ELSE t - file.mtime < CacheHours

\* with open(cache_file, "w") as f: json.dump(data, f)
\* The file after the write, and whether the with-block raised.
write_cache(file, text, t, wr) ==
    CASE wr = "ok" ->
            [file |-> [exists |-> TRUE, text |-> text, mtime |-> t], raised |-> FALSE]
      [] wr = "open_fails" ->
            [file |-> file, raised |-> TRUE]
      [] wr = "dump_fails_early" ->
            [file |-> [exists |-> TRUE, text |-> <<>>, mtime |-> t], raised |-> TRUE]
      [] OTHER ->
            [file |-> [exists |-> TRUE, text |-> SubSeq(text, 1, Len(text) - 1), mtime |-> t],
             raised |-> TRUE]

----------------------------------------------------------------------------
(* The cached-feed adapters fetch_kev_data and fetch_github_advisories     *)

Returned(v) == [kind |-> "return", value |-> v, exc |-> ""]
Raises(type) == [kind |-> "raise", value |-> <<>>, exc |-> type]
Awaits == [kind |-> "await", value |-> <<>>, exc |-> ""]

\* fetch_cached_begin without the cache branch: every call goes upstream
fetch_cached_begin_no_cache(file, t) == Awaits

\* Up to the await of client.get: the cache file's content when the file
\* is valid, else the live fetch is issued.
fetch_cached_begin(file, t) ==
    IF is_cache_valid(file, t)
    THEN LET l == json_load(file.text) IN
         IF l.ok THEN Returned(l.value) ELSE Raises("JSONDecodeError")
    ELSE Awaits

\* fetch_cached_resume without the write: a 200 is returned and not cached
fetch_cached_resume_no_write(f, file, t, out, wr) ==
    IF out.kind = "raise"
    THEN [result |-> Raises(out.exc), file |-> file]
    ELSE IF out.status_code = 200
    THEN [result |-> Returned(The(out.body)), file |-> file]
    ELSE [result |-> Returned(EmptyResult(f)), file |-> file]

\* From the response on: a 200 is written to the cache file and returned,
\* anything else is the empty result; an httpx exception propagates.
fetch_cached_resume(f, file, t, out, wr) ==
    IF out.kind = "raise"
    THEN [result |-> Raises(out.exc), file |-> file]
    ELSE IF out.status_code = 200
    THEN LET data == The(out.body)
             w == write_cache(file, json_dump(f, data), t, wr)
         IN
         [result |-> IF w.raised THEN Raises("OSError") ELSE Returned(data),
          file |-> w.file]
    ELSE [result |-> Returned(EmptyResult(f)), file |-> file]

----------------------------------------------------------------------------
(* The enrichment configuration *)

\* AIConfig() with the API key load_env_config found in the environment
DefaultConfig(key) ==
    [provider |-> "chatgpt", model_name |-> "gpt-4o-mini", api_key |-> key,
     ollama_url |-> "http://localhost:11434"]

\* OPENAI_API_KEY is unset, or set
EnvKeys == {None, Some("sk-env")}

\* Bodies a caller may POST to /api/config
ConfigInputs ==
    { [provider |-> "ollama", model_name |-> "llama3", api_key |-> None,
       ollama_url |-> "http://localhost:11434"],
      [provider |-> "ollama", model_name |-> "mistral", api_key |-> None,
       ollama_url |-> "http://gpu:11434"],
      [provider |-> "chatgpt", model_name |-> "gpt-4o-mini", api_key |-> None,
       ollama_url |-> "http://localhost:11434"],
      [provider |-> "chatgpt", model_name |-> "gpt-4o", api_key |-> Some("sk-cfg"),
       ollama_url |-> "http://localhost:11434"],
      [provider |-> "claude", model_name |-> "gpt-4o-mini", api_key |-> None,
       ollama_url |-> "http://localhost:11434"] }

----------------------------------------------------------------------------
(* The frame of an analyze_cve coroutine *)

\* The outbound calls of a request, in the order they were issued, each
\* with how it ended.
Call(api, url, model) == [api |-> api, url |-> url, model |-> model, outcome |-> "pending"]

Ended(call, outcome) == [call EXCEPT !.outcome = outcome]

\* How an HTTP exchange ended
HttpOutcome(out) ==
    IF out.kind = "raise" THEN "raise"
    ELSE IF out.status_code = 200 THEN "200" ELSE "non200"

\* The frame with its last call ended
Resolve(t, outcome) == [t EXCEPT !.calls[Len(t.calls)] = Ended(@, outcome)]

IdleTask ==
    [pc |-> "idle", cve_id |-> "", ai_analysis |-> FALSE,
     nvd_data |-> None, epss_data |-> None, kev_data |-> None,
     github_advisories |-> None, analysis_data |-> None,
     prompt |-> None, available_models |-> None, calls |-> <<>>, response |-> None]

\* JSONResponse(content=analysis_data)
JSONResponse(content) == [status_code |-> 200, content |-> Some(content)]

\* An HTTPException leaving the handler
ErrorResponse(status) == [status_code |-> status, content |-> None]

HTTPException(status) == [type |-> "HTTPException", status_code |-> status]
OtherException(type) == [type |-> type, status_code |-> 0]

\* except Exception as e: raise HTTPException(status_code=500, detail=str(e))
\* HTTPException is an Exception: the handler catches whatever was raised
\* inside its try block.
analyze_except(t, exc) ==
    [t EXCEPT !.pc = "done", !.response = Some(ErrorResponse(500))]

\* FirstMatch taking the last of the matching positions
FirstMatch_last(seq, hits) ==
    IF hits = {} THEN None
    ELSE Some(seq[CHOOSE x \in hits : \A y \in hits : x >= y])

\* next((x for x in seq if ...), None): the first element among the matching
\* positions, None when there is none.
FirstMatch(seq, hits) ==
    IF hits = {} THEN None ELSE Some(seq[Min(hits)])

\* vuln.get("cveID") == request.cve_id
kev_entry(kev_data, cve_id) ==
    LET vulns == kev_data.vulnerabilities IN
    FirstMatch(vulns, {i \in 1..Len(vulns) : vulns[i].cveID = cve_id})

\* request.cve_id in [cve.get("number") for cve in advisory.get("cves", [])]
github_entry(github_advisories, cve_id) ==
    LET IsIt(advisory) ==
            \E i \in 1..Len(advisory.cves) : advisory.cves[i].number = cve_id
    IN FirstMatch(github_advisories,
                  {i \in 1..Len(github_advisories) : IsIt(github_advisories[i])})

\* compile_analysis with the identifier put in upper case
compile_analysis_normalised(t) ==
    LET analysis_data ==
            [cve_id |-> IF t.cve_id = "cve-2021-44228" THEN "CVE-2021-44228" ELSE t.cve_id,
             nvd |-> The(t.nvd_data),
             epss |-> The(t.epss_data),
             kev |-> kev_entry(The(t.kev_data), t.cve_id),
             github |-> github_entry(The(t.github_advisories), t.cve_id),
             ai_analysis |-> None]
    IN IF t.ai_analysis
       THEN [t EXCEPT !.pc = "enrich", !.analysis_data = Some(analysis_data)]
       ELSE [t EXCEPT !.pc = "done", !.analysis_data = Some(analysis_data),
                      !.response = Some(JSONResponse(analysis_data))]

\* compile_analysis without the test of request.ai_analysis: every record
\* is enriched
compile_analysis_always_enrich(t) ==
    LET analysis_data ==
            [cve_id |-> t.cve_id,
             nvd |-> The(t.nvd_data),
             epss |-> The(t.epss_data),
             kev |-> kev_entry(The(t.kev_data), t.cve_id),
             github |-> github_entry(The(t.github_advisories), t.cve_id),
             ai_analysis |-> None]
    IN [t EXCEPT !.pc = "enrich", !.analysis_data = Some(analysis_data)]

\* Lines 566-602 without enrichment: the record is compiled, and returned
\* at once unless enrichment was requested.
compile_analysis(t) ==
    LET analysis_data ==
            [cve_id |-> t.cve_id,
             nvd |-> The(t.nvd_data),
             epss |-> The(t.epss_data),
             kev |-> kev_entry(The(t.kev_data), t.cve_id),
             github |-> github_entry(The(t.github_advisories), t.cve_id),
             ai_analysis |-> None]
    IN IF t.ai_analysis
       THEN [t EXCEPT !.pc = "enrich", !.analysis_data = Some(analysis_data)]
       ELSE [t EXCEPT !.pc = "done", !.analysis_data = Some(analysis_data),
                      !.response = Some(JSONResponse(analysis_data))]

\* A world is the cache together with the running coroutine's frame.
after_github(w, res) ==
    IF res.kind = "raise"
    THEN [w EXCEPT !.t = analyze_except(w.t, OtherException(res.exc))]
    ELSE [w EXCEPT !.t = compile_analysis([w.t EXCEPT !.github_advisories = Some(res.value)])]

\* github_advisories = await fetch_github_advisories()
call_fetch_github_advisories(w) ==
    LET b == fetch_cached_begin(w.cache.github, now) IN
    IF b.kind = "await"
    THEN [w EXCEPT !.t.pc = "github", !.t.calls = Append(@, Call("github", "", ""))]
    ELSE after_github(w, b)

after_kev(w, res) ==
    IF res.kind = "raise"
    THEN [w EXCEPT !.t = analyze_except(w.t, OtherException(res.exc))]
    ELSE call_fetch_github_advisories([w EXCEPT !.t.kev_data = Some(res.value)])

\* kev_data = await fetch_kev_data()
call_fetch_kev_data(w) ==
    LET b == fetch_cached_begin(w.cache.kev, now) IN
    IF b.kind = "await"
    THEN [w EXCEPT !.t.pc = "kev", !.t.calls = Append(@, Call("kev", "", ""))]
    ELSE after_kev(w, b)

Commit(r, w) ==
    /\ cache' = w.cache
    /\ tasks' = [tasks EXCEPT ![r] = w.t]

----------------------------------------------------------------------------
(* The AI enrichment *)

\* content[:200] in the degraded result
SummaryChars == 200

\* A text a model returns: what json.loads makes of it (None: it is no
\* JSON) and its length.
Text(json, len) == [json |-> json, len |-> len]

\* What enrichment returns: a str, a dict, or whatever json.loads gave.
\* error and summary are the keys "error" and "summary" (None: no such key).
PyStr(message, url, model) ==
    [py |-> "str", error |-> None, message |-> message, url |-> url, model |-> model,
     summary |-> None, risk_assessment |-> "", raw_response |-> None]
ErrorDict(message, model) ==
    [py |-> "dict", error |-> Some(TRUE), message |-> message, url |-> "", model |-> model,
     summary |-> None, risk_assessment |-> "", raw_response |-> None]
JsonValue(py) ==
    [py |-> py, error |-> None, message |-> "", url |-> "", model |-> "",
     summary |-> None, risk_assessment |-> "", raw_response |-> None]

\* Summary with >= for >: a text of exactly SummaryChars characters gets
\* the ellipsis
Summary_ellipsis_at_limit(content) ==
    IF content.len >= SummaryChars
    THEN [chars |-> SummaryChars, ellipsis |-> TRUE]
    ELSE [chars |-> content.len, ellipsis |-> FALSE]

\* content[:200] + "..." if len(content) > 200 else content: how many
\* characters of the text the summary starts with, and whether "..." follows
Summary(content) ==
    IF content.len > SummaryChars
    THEN [chars |-> SummaryChars, ellipsis |-> TRUE]
    ELSE [chars |-> content.len, ellipsis |-> FALSE]

\* The dict returned when json.loads raised JSONDecodeError
Degraded(content, marker) ==
    [py |-> "dict", error |-> Some(FALSE), message |-> "", url |-> "", model |-> "",
     summary |-> Some(Summary(content)), risk_assessment |-> marker,
     raw_response |-> Some(content)]

\* Texts a model may return: a JSON object, a JSON number, and prose of
\* no, 200 and 201 characters.
Contents ==
    { Text(Some(JsonValue("dict")), 300), Text(Some(JsonValue("int")), 2),
      Text(None, 0), Text(None, 200), Text(None, 201) }

\* client.responses.create: an SDK exception, a response without
\* output_text, or a response with a text
SdkRaised(message) == [kind |-> "raise", content |-> None, message |-> message]
SdkEmpty == [kind |-> "empty", content |-> None, message |-> ""]
SdkContent(content) == [kind |-> "content", content |-> content, message |-> ""]

\* str(e) of an SDK exception, by the substrings lines 330-335 look for
SdkErrors == {"authentication", "rate limit", "model not found", "connection error"}

SearchOutcomes ==
    {SdkRaised(m) : m \in SdkErrors} \cup {SdkEmpty}
        \cup {SdkContent(Some(c)) : c \in Contents}

\* client.chat.completions.create: an SDK exception, no choices, a message
\* whose content is None, or a message with a text
ChatOutcomes ==
    {SdkRaised(m) : m \in SdkErrors} \cup {SdkEmpty, SdkContent(None)}
        \cup {SdkContent(Some(c)) : c \in Contents}

\* How an SDK call ended
SdkOutcome(o) ==
    CASE o.kind # "content" -> o.kind
      [] IsNone(o.content) -> "null_content"
      [] IsNone(The(o.content).json) -> "not_json"
      [] OTHER -> "json"

\* if "cvssMetricV31" in metrics: ... elif "cvssMetricV3" in metrics: ...
\* (lines 366-375 and 475-484): the list the builders take the score from,
\* None when the record has neither key
selected_metric(vuln_data) ==
    IF ~IsNone(vuln_data.cvssMetricV31) THEN vuln_data.cvssMetricV31
    ELSE vuln_data.cvssMetricV3

\* metrics["cvssMetricV31"][0] and metrics["cvssMetricV3"][0] raise
\* IndexError on an empty list (lines 367, 372 and 476, 481); nothing else
\* in the builders raises.
prompt_raises(analysis_data) ==
    \E i \in 1..Len(analysis_data.nvd.vulnerabilities) :
        /\ i = 1
        /\ selected_metric(analysis_data.nvd.vulnerabilities[i]) = Some(<<>>)

\* dict.get(key, default)
Get(o, default) == IF IsNone(o) THEN default ELSE The(o)

\* Lines 349-380 and 458-489, the same in both builders: the values the
\* prompt shows, taken from the first vulnerability and the first score.
extract_fields(cve_data) ==
    LET vulns == cve_data.nvd.vulnerabilities
        \* nvd_data["vulnerabilities"][0] if nvd_data["vulnerabilities"] else {}
        vuln_data == IF vulns # <<>> THEN vulns[1] ELSE Vulnerability(<<>>, None)
        cvss == selected_metric(vuln_data)
        data == cve_data.epss.data
    IN
    [vulnerability_desc |->
        IF vuln_data.descriptions # <<>> THEN Get(vuln_data.descriptions[1], "") ELSE "",
     cvss_score |-> IF IsNone(cvss) THEN "Unknown" ELSE Get(The(cvss)[1].baseScore, "Unknown"),
     severity |-> IF IsNone(cvss) THEN "Unknown" ELSE Get(The(cvss)[1].baseSeverity, "Unknown"),
     cvss_vector |-> IF IsNone(cvss) THEN "" ELSE Get(The(cvss)[1].vectorString, ""),
     epss_score |-> IF data # <<>> THEN Get(data[1].epss, "Not available") ELSE "Not available"]

\* The lines of "Available data" (412-417 and 507-512), and for the JSON
\* variant the "cvss_score" line of the answer's structure (429)
Prompt(variant, cve_data, x, template_cvss_score) ==
    [variant |-> variant,
     cve |-> cve_data.cve_id,
     description |-> x.vulnerability_desc,
     cvss_score |-> x.cvss_score,
     severity |-> x.severity,
     cvss_vector |-> x.cvss_vector,
     epss_score |-> x.epss_score,
     known_exploited |-> IF IsNone(cve_data.kev) THEN "No" ELSE "Yes",
     template_cvss_score |-> template_cvss_score]

\* create_analysis_prompt_json, called with a record it does not raise on
create_analysis_prompt_json(cve_data) ==
    LET x == extract_fields(cve_data) IN
    Prompt("json", cve_data, x,
           Some(IF x.cvss_score # "Unknown" THEN x.cvss_score ELSE "null"))

\* create_analysis_prompt, called with a record it does not raise on
create_analysis_prompt(cve_data) ==
    Prompt("text", cve_data, extract_fields(cve_data), None)

\* Lines 329-340: the error dict of the outer except
chatgpt_error(message, cfg) ==
    ErrorDict(CASE message = "authentication" -> "Authentication failed"
                [] message = "rate limit" -> "Rate limit exceeded"
                [] message = "model not found" -> "Model not found or not accessible"
                [] OTHER -> message,
              IF message = "model not found" THEN cfg.model_name ELSE "")

\* Lines 254-269 and 302-317: json.loads(content), or the degraded dict
parse_content(content, marker) ==
    IF IsNone(content.json) THEN Degraded(content, marker) ELSE The(content.json)

\* Lines 278-322: the chat-completions fallback
chat_completions(o2, cfg) ==
    CASE o2.kind = "raise" -> chatgpt_error(o2.message, cfg)
      [] o2.kind = "empty" ->
            ErrorDict("No response content received from OpenAI API", "")
      [] IsNone(o2.content) ->
            \* len(None) raises TypeError, caught by the outer except
            chatgpt_error("object of type NoneType has no len()", cfg)
      [] OTHER ->
            parse_content(The(o2.content),
                          "Unable to parse structured response - Chat completions used")

\* analyze_with_chatgpt without the API-key check
analyze_with_chatgpt_no_key_check(analysis_data, cfg, o1, o2) ==
    LET search == Ended(Call("responses", "", cfg.model_name), SdkOutcome(o1))
        chat == Ended(Call("chat_completions", "", cfg.model_name), SdkOutcome(o2))
    IN
    IF prompt_raises(analysis_data)
    THEN [result |-> chatgpt_error("list index out of range", cfg), calls |-> <<>>,
          prompt |-> None]
    ELSE IF o1.kind = "content"
    THEN [result |-> parse_content(The(o1.content), "Unable to parse structured response"),
          calls |-> <<search>>, prompt |-> Some(create_analysis_prompt_json(analysis_data))]
    ELSE [result |-> chat_completions(o2, cfg), calls |-> <<search, chat>>,
          prompt |-> Some(create_analysis_prompt_json(analysis_data))]

\* analyze_with_chatgpt without the fallback: a failed responses call is
\* reported at once
analyze_with_chatgpt_no_fallback(analysis_data, cfg, o1, o2) ==
    LET search == Ended(Call("responses", "", cfg.model_name), SdkOutcome(o1)) IN
    IF IsNone(cfg.api_key) \/ cfg.api_key = Some("")
    THEN [result |-> ErrorDict("ChatGPT API key not configured", ""), calls |-> <<>>,
          prompt |-> None]
    ELSE IF prompt_raises(analysis_data)
    THEN [result |-> chatgpt_error("list index out of range", cfg), calls |-> <<>>,
          prompt |-> None]
    ELSE IF o1.kind = "content"
    THEN [result |-> parse_content(The(o1.content), "Unable to parse structured response"),
          calls |-> <<search>>, prompt |-> Some(create_analysis_prompt_json(analysis_data))]
    ELSE [result |-> chatgpt_error(o1.message, cfg), calls |-> <<search>>,
          prompt |-> Some(create_analysis_prompt_json(analysis_data))]

\* analyze_with_chatgpt falling back also when the text of the responses
\* request is not JSON
analyze_with_chatgpt_fallback_on_unparsable(analysis_data, cfg, o1, o2) ==
    LET search == Ended(Call("responses", "", cfg.model_name), SdkOutcome(o1))
        chat == Ended(Call("chat_completions", "", cfg.model_name), SdkOutcome(o2))
    IN
    IF IsNone(cfg.api_key) \/ cfg.api_key = Some("")
    THEN [result |-> ErrorDict("ChatGPT API key not configured", ""), calls |-> <<>>,
          prompt |-> None]
    ELSE IF prompt_raises(analysis_data)
    THEN [result |-> chatgpt_error("list index out of range", cfg), calls |-> <<>>,
          prompt |-> None]
    ELSE IF o1.kind = "content" /\ ~IsNone(The(o1.content).json)
    THEN [result |-> parse_content(The(o1.content), "Unable to parse structured response"),
          calls |-> <<search>>, prompt |-> Some(create_analysis_prompt_json(analysis_data))]
    ELSE [result |-> chat_completions(o2, cfg), calls |-> <<search, chat>>,
          prompt |-> Some(create_analysis_prompt_json(analysis_data))]

\* analyze_with_chatgpt: the OpenAI client is synchronous, so the whole
\* function runs without an await.  The result and the calls it made.
analyze_with_chatgpt(analysis_data, cfg, o1, o2) ==
    LET search == Ended(Call("responses", "", cfg.model_name), SdkOutcome(o1))
        chat == Ended(Call("chat_completions", "", cfg.model_name), SdkOutcome(o2))
    IN
    IF IsNone(cfg.api_key) \/ cfg.api_key = Some("")
    THEN [result |-> ErrorDict("ChatGPT API key not configured", ""), calls |-> <<>>,
          prompt |-> None]
    ELSE IF prompt_raises(analysis_data)
    THEN [result |-> chatgpt_error("list index out of range", cfg), calls |-> <<>>,
          prompt |-> None]
    ELSE IF o1.kind = "content"
    THEN [result |-> parse_content(The(o1.content), "Unable to parse structured response"),
          calls |-> <<search>>, prompt |-> Some(create_analysis_prompt_json(analysis_data))]
    ELSE [result |-> chat_completions(o2, cfg), calls |-> <<search, chat>>,
          prompt |-> Some(create_analysis_prompt_json(analysis_data))]

\* analysis_data["ai_analysis"] = ai_result; return JSONResponse(...)
finish_analysis(t, ai_result, calls) ==
    LET analysis_data == [The(t.analysis_data) EXCEPT !.ai_analysis = Some(ai_result)] IN
    [t EXCEPT !.pc = "done", !.analysis_data = Some(analysis_data),
              !.calls = @ \o calls,
              !.response = Some(JSONResponse(analysis_data))]

\* Models the local endpoint may list at /api/tags
OllamaModelLists == {<<>>, <<"llama3">>, <<"mistral", "llama3">>}

TagsOutcomes ==
    {Response(200, Some(l)) : l \in OllamaModelLists}
        \cup {Response(500, None), Raised("ConnectError")}

\* What /api/generate may answer: result.get("response", "")
GenerateOutcomes ==
    {Response(200, Some(len)) : len \in {0, 120}}
        \cup {Response(500, None), Raised("TimeoutException"),
              Raised("ConnectError"), Raised("RuntimeError")}

InSeq(x, seq) == \E i \in 1..Len(seq) : seq[i] = x

----------------------------------------------------------------------------
(* The handlers *)

\* POST /api/analyze arrives: up to the await in fetch_nvd_data
analyze_cve(r, cve_id, ai) ==
    /\ tasks[r].pc = "idle"
    /\ tasks' = [tasks EXCEPT ![r] =
            [IdleTask EXCEPT !.pc = "nvd", !.cve_id = cve_id, !.ai_analysis = ai,
                             !.calls = <<Call("nvd", cve_id, "")>>]]
    /\ UNCHANGED <<now, cache, ai_config>>

\* fetch_nvd_data answering a non-200 with an empty record, as
\* fetch_epss_data does, instead of raising
fetch_nvd_data_soft(r, out) ==
    LET t == Resolve(tasks[r], HttpOutcome(out)) IN
    /\ tasks[r].pc = "nvd"
    /\ tasks' = [tasks EXCEPT ![r] =
            IF out.kind = "raise"
            THEN analyze_except(t, OtherException(out.exc))
            ELSE [t EXCEPT !.pc = "epss",
                           !.nvd_data = IF out.status_code = 200 THEN out.body
                                        ELSE Some([vulnerabilities |-> <<>>]),
                           !.calls = Append(@, Call("epss", t.cve_id, ""))]]
    /\ UNCHANGED <<now, cache, ai_config>>

\* fetch_nvd_data from the response on, to the await in fetch_epss_data
fetch_nvd_data(r, out) ==
    LET t == Resolve(tasks[r], HttpOutcome(out)) IN
    /\ tasks[r].pc = "nvd"
    /\ tasks' = [tasks EXCEPT ![r] =
            IF out.kind = "raise"
            THEN analyze_except(t, OtherException(out.exc))
            ELSE IF out.status_code = 200
            THEN [t EXCEPT !.pc = "epss", !.nvd_data = out.body,
                           !.calls = Append(@, Call("epss", t.cve_id, ""))]
            ELSE analyze_except(t, HTTPException(404))]
    /\ UNCHANGED <<now, cache, ai_config>>

\* fetch_epss_data from the response on, then fetch_kev_data and what follows
fetch_epss_data(r, out) ==
    LET t == Resolve(tasks[r], HttpOutcome(out)) IN
    /\ tasks[r].pc = "epss"
    /\ Commit(r,
            IF out.kind = "raise"
            THEN [cache |-> cache, t |-> analyze_except(t, OtherException(out.exc))]
            ELSE call_fetch_kev_data(
                    [cache |-> cache,
                     t |-> [t EXCEPT !.epss_data =
                                IF out.status_code = 200 THEN out.body
                                ELSE Some([data |-> <<>>])]]))
    /\ UNCHANGED <<now, ai_config>>

\* fetch_kev_data from the response on, then fetch_github_advisories
fetch_kev_data(r, out, wr) ==
    LET t == Resolve(tasks[r], HttpOutcome(out))
        x == fetch_cached_resume("kev", cache.kev, now, out, wr)
    IN /\ tasks[r].pc = "kev"
       /\ Commit(r, after_kev([cache |-> [cache EXCEPT !.kev = x.file], t |-> t], x.result))
       /\ UNCHANGED <<now, ai_config>>

\* fetch_github_advisories from the response on, then the compilation
fetch_github_advisories(r, out, wr) ==
    LET t == Resolve(tasks[r], HttpOutcome(out))
        x == fetch_cached_resume("github", cache.github, now, out, wr)
    IN /\ tasks[r].pc = "github"
       /\ Commit(r, after_github([cache |-> [cache EXCEPT !.github = x.file], t |-> t], x.result))
       /\ UNCHANGED <<now, ai_config>>

\* perform_ai_analysis sending every provider other than ollama to the
\* hosted backend
perform_ai_analysis_default_chatgpt(r, o1, o2) ==
    LET t == tasks[r]
        analysis_data == The(t.analysis_data)
    IN
    /\ t.pc = "enrich"
    /\ tasks' = [tasks EXCEPT ![r] =
            IF ai_config.provider = "ollama"
            THEN \* analyze_with_ollama to the await of client.get (line 154)
                 IF prompt_raises(analysis_data)
                 THEN finish_analysis(t, PyStr("AI Analysis error", "", ""), <<>>)
                 ELSE [t EXCEPT !.pc = "ollama_tags",
                                !.prompt = Some(create_analysis_prompt(analysis_data)),
                                !.calls = Append(@, Call("ollama_tags", ai_config.ollama_url, ""))]
            ELSE LET a == analyze_with_chatgpt(analysis_data, ai_config, o1, o2) IN
                 finish_analysis([t EXCEPT !.prompt = a.prompt], a.result, a.calls)]
    /\ UNCHANGED <<now, cache, ai_config>>

\* perform_ai_analysis, to its first await or to the handler's return.
\* The record was compiled by the run before; nothing the handler does in
\* between reads shared state.
perform_ai_analysis(r, o1, o2) ==
    LET t == tasks[r]
        analysis_data == The(t.analysis_data)
    IN
    /\ t.pc = "enrich"
    /\ tasks' = [tasks EXCEPT ![r] =
            IF ai_config.provider = "ollama"
            THEN \* analyze_with_ollama to the await of client.get (line 154)
                 IF prompt_raises(analysis_data)
                 THEN finish_analysis(t, PyStr("AI Analysis error", "", ""), <<>>)
                 ELSE [t EXCEPT !.pc = "ollama_tags",
                                !.prompt = Some(create_analysis_prompt(analysis_data)),
                                !.calls = Append(@, Call("ollama_tags", ai_config.ollama_url, ""))]
            ELSE IF ai_config.provider = "chatgpt"
            THEN LET a == analyze_with_chatgpt(analysis_data, ai_config, o1, o2) IN
                 finish_analysis([t EXCEPT !.prompt = a.prompt], a.result, a.calls)
            ELSE finish_analysis(t, ErrorDict("AI analysis not configured", ""), <<>>)]
    /\ UNCHANGED <<now, cache, ai_config>>

\* ollama_tags probing again when the probe raised
ollama_tags_retry(r, out) ==
    LET t == Resolve(tasks[r], HttpOutcome(out)) IN
    /\ tasks[r].pc = "ollama_tags"
    /\ tasks' = [tasks EXCEPT ![r] =
            IF out.kind = "raise"
            THEN [t EXCEPT !.calls = Append(@, Call("ollama_tags", ai_config.ollama_url, ""))]
            ELSE IF out.status_code # 200
            THEN finish_analysis(t, PyStr("Ollama service is not running", "", ""), <<>>)
            ELSE IF ~InSeq(ai_config.model_name, The(out.body))
            THEN finish_analysis([t EXCEPT !.available_models = out.body],
                                 PyStr("Model not found", "", ai_config.model_name), <<>>)
            ELSE [t EXCEPT !.pc = "ollama_generate",
                           !.available_models = out.body,
                           !.calls = Append(@, Call("ollama_generate", ai_config.ollama_url,
                                                    ai_config.model_name))]]
    /\ UNCHANGED <<now, cache, ai_config>>

\* ollama_tags without the test of line 166: the generation is requested
\* whatever models the endpoint lists
ollama_tags_no_model_check(r, out) ==
    LET t == Resolve(tasks[r], HttpOutcome(out)) IN
    /\ tasks[r].pc = "ollama_tags"
    /\ tasks' = [tasks EXCEPT ![r] =
            IF out.kind = "raise"
            THEN finish_analysis(t, PyStr("Cannot connect to Ollama. Error", ai_config.ollama_url, ""), <<>>)
            ELSE IF out.status_code # 200
            THEN finish_analysis(t, PyStr("Ollama service is not running", "", ""), <<>>)
            ELSE [t EXCEPT !.pc = "ollama_generate",
                           !.available_models = out.body,
                           !.calls = Append(@, Call("ollama_generate", ai_config.ollama_url,
                                                    ai_config.model_name))]]
    /\ UNCHANGED <<now, cache, ai_config>>

\* analyze_with_ollama from the answer of /api/tags to the await of
\* client.post (lines 155-179)
ollama_tags(r, out) ==
    LET t == Resolve(tasks[r], HttpOutcome(out)) IN
    /\ tasks[r].pc = "ollama_tags"
    /\ tasks' = [tasks EXCEPT ![r] =
            IF out.kind = "raise"
            THEN finish_analysis(t, PyStr("Cannot connect to Ollama. Error", ai_config.ollama_url, ""), <<>>)
            ELSE IF out.status_code # 200
            THEN finish_analysis(t, PyStr("Ollama service is not running", "", ""), <<>>)
            ELSE IF ~InSeq(ai_config.model_name, The(out.body))
            THEN finish_analysis([t EXCEPT !.available_models = out.body],
                                 PyStr("Model not found", "", ai_config.model_name), <<>>)
            ELSE [t EXCEPT !.pc = "ollama_generate",
                           !.available_models = out.body,
                           !.calls = Append(@, Call("ollama_generate", ai_config.ollama_url,
                                                    ai_config.model_name))]]
    /\ UNCHANGED <<now, cache, ai_config>>

\* ollama_generate without the except clauses of lines 207-215: an
\* exception of client.post reaches analyze_cve
ollama_generate_unguarded(r, out) ==
    LET t == Resolve(tasks[r], HttpOutcome(out)) IN
    /\ tasks[r].pc = "ollama_generate"
    /\ tasks' = [tasks EXCEPT ![r] =
            IF out.kind = "raise"
            THEN analyze_except(t, OtherException(out.exc))
            ELSE finish_analysis(t,
                    CASE out.status_code # 200 -> PyStr("Ollama API error", "", "")
                      [] The(out.body) = 0 ->
                            PyStr("Analysis completed but no response received", "", "")
                      [] OTHER -> PyStr("response_text", "", ""),
                    <<>>)]
    /\ UNCHANGED <<now, cache, ai_config>>

\* analyze_with_ollama from the answer of /api/generate on (lines 193-215)
ollama_generate(r, out) ==
    LET t == Resolve(tasks[r], HttpOutcome(out)) IN
    /\ tasks[r].pc = "ollama_generate"
    /\ tasks' = [tasks EXCEPT ![r] = finish_analysis(t,
            CASE out.kind = "raise" /\ out.exc = "TimeoutException" ->
                    PyStr("AI Analysis timeout", "", "")
              [] out.kind = "raise" /\ out.exc = "ConnectError" ->
                    PyStr("Cannot connect to Ollama", ai_config.ollama_url, "")
              [] out.kind = "raise" ->
                    PyStr("AI Analysis error", "", "")
              [] out.status_code # 200 ->
                    PyStr("Ollama API error", "", "")
              [] The(out.body) = 0 ->
                    PyStr("Analysis completed but no response received", "", "")
              [] OTHER ->
                    PyStr("response_text", "", ""),
            <<>>)]
    /\ UNCHANGED <<now, cache, ai_config>>

\* The response leaves; the frame is discarded.
send_response(r) ==
    /\ tasks[r].pc = "done"
    /\ tasks' = [tasks EXCEPT ![r] = IdleTask]
    /\ UNCHANGED <<now, cache, ai_config>>

\* POST /api/config
update_config(config) ==
    /\ ai_config' = config
    /\ UNCHANGED <<now, cache, tasks>>

\* An hour passes.
Tick ==
    /\ now < MaxTime
    /\ now' = now + 1
    /\ UNCHANGED <<cache, ai_config, tasks>>

----------------------------------------------------------------------------
\* After start-up: an empty cache directory, the configuration load_env_config
\* left, no request in progress.
Init ==
    /\ now = 0
    /\ cache = [kev |-> NoFile, github |-> NoFile]
    /\ \E key \in EnvKeys : ai_config = DefaultConfig(key)
    /\ tasks = [r \in Reqs |-> IdleTask]

\* The aggregation with its cache, the clock and failing file writes; no
\* enrichment is requested, and the primary database answers with the
\* basic records.
NextFeeds ==
    \/ \E id \in CveIds : analyze_cve(1, id, FALSE)
    \/ \E out \in BasicNvdOutcomes : fetch_nvd_data(1, out)
    \/ \E out \in BasicEpssOutcomes : fetch_epss_data(1, out)
    \/ \E out \in FeedOutcomes("kev"), wr \in WriteOutcomes : fetch_kev_data(1, out, wr)
    \/ \E out \in FeedOutcomes("github"), wr \in WriteOutcomes : fetch_github_advisories(1, out, wr)
    \/ send_response(1)
    \/ Tick

SpecFeeds == Init /\ [][NextFeeds]_vars

\* The whole service with enrichment and configuration updates; the clock
\* stands still, file writes succeed, and the primary database answers
\* with the basic records.
Next ==
    \/ \E id \in CveIds, ai \in BOOLEAN : analyze_cve(1, id, ai)
    \/ \E out \in BasicNvdOutcomes : fetch_nvd_data(1, out)
    \/ \E out \in BasicEpssOutcomes : fetch_epss_data(1, out)
    \/ \E out \in FeedOutcomes("kev") : fetch_kev_data(1, out, "ok")
    \/ \E out \in FeedOutcomes("github") : fetch_github_advisories(1, out, "ok")
    \/ \E o1 \in SearchOutcomes, o2 \in ChatOutcomes : perform_ai_analysis(1, o1, o2)
    \/ \E out \in TagsOutcomes : ollama_tags(1, out)
    \/ \E out \in GenerateOutcomes : ollama_generate(1, out)
    \/ send_response(1)
    \/ \E config \in ConfigInputs : update_config(config)

Spec == Init /\ [][Next]_vars

\* Two analyze_cve calls in progress at once on the same cache files, with
\* failing file writes; the clock stands still, no enrichment is requested,
\* the primary database answers with an empty list or fails, and the
\* exploit-score service has no score.
NextConcurrent ==
    \/ \E r \in Reqs : analyze_cve(r, "CVE-2021-44228", FALSE)
    \/ \E r \in Reqs :
        \E out \in {o \in NvdOutcomes : o.body \in {None, Some([vulnerabilities |-> <<>>])}} :
            fetch_nvd_data(r, out)
    \/ \E r \in Reqs :
        \E out \in {o \in EpssOutcomes : o.status_code # 200} : fetch_epss_data(r, out)
    \/ \E r \in Reqs, out \in FeedOutcomes("kev"), wr \in WriteOutcomes :
            fetch_kev_data(r, out, wr)
    \/ \E r \in Reqs, out \in FeedOutcomes("github"), wr \in WriteOutcomes :
            fetch_github_advisories(r, out, wr)
    \/ \E r \in Reqs : send_response(r)

SpecConcurrent == Init /\ [][NextConcurrent]_vars

\* The enrichment of one identifier over every record the primary database
\* and the exploit-score service may answer with; the clock stands still
\* and file writes succeed.
NextPrompts ==
    \/ analyze_cve(1, "CVE-2021-44228", TRUE)
    \/ \E out \in NvdOutcomes : fetch_nvd_data(1, out)
    \/ \E out \in EpssOutcomes : fetch_epss_data(1, out)
    \/ \E out \in FeedOutcomes("kev") : fetch_kev_data(1, out, "ok")
    \/ \E out \in FeedOutcomes("github") : fetch_github_advisories(1, out, "ok")
    \/ \E o1 \in SearchOutcomes, o2 \in ChatOutcomes : perform_ai_analysis(1, o1, o2)
    \/ \E out \in TagsOutcomes : ollama_tags(1, out)
    \/ \E out \in GenerateOutcomes : ollama_generate(1, out)
    \/ send_response(1)
    \/ \E config \in ConfigInputs : update_config(config)

SpecPrompts == Init /\ [][NextPrompts]_vars

----------------------------------------------------------------------------
(* Properties *)

\* The request the specifications run
T == tasks[1]

CallsTo(t, api) == {i \in 1..Len(t.calls) : t.calls[i].api = api}
Called(t, api) == CallsTo(t, api) # {}

\* How the call to api ended ("none": no such call was issued)
CallOutcome(t, api) ==
    IF Called(t, api) THEN t.calls[Min(CallsTo(t, api))].outcome ELSE "none"

StatusOf(t) == The(t.response).status_code
RecordOf(t) == The(The(t.response).content)

\* What an adapter returned to analyze_cve, and what analyze_cve holds
\* when it calls the adapter
Data(t, f) == IF f = "kev" THEN t.kev_data ELSE t.github_advisories
Before(t, f) == IF f = "kev" THEN t.epss_data ELSE t.kev_data

\* This step calls adapter f: the statement before the call completes in it.
Entered(f) == IsNone(Before(T, f)) /\ ~IsNone(Before(T', f))

\* This step resumes adapter f at the answer of its live fetch.
Resumed(f) == T.pc = f /\ T'.pc # f

Age(f) == now - cache[f].mtime

EnrichCalls(t) ==
    SelectSeq(t.calls, LAMBDA c :
        c.api \in {"ollama_tags", "ollama_generate", "responses", "chat_completions"})

\* The calls this step issued
NewCalls == SubSeq(T'.calls, Len(T.calls) + 1, Len(T'.calls))

\* This step runs perform_ai_analysis.
EnrichStep == T.pc = "enrich" /\ T'.pc # "enrich"

\* C1: whenever fetch_nvd_data reports the identifier unknown (a non-200
\* answer of the primary database), analyze_cve answers 404.
C1_UnknownIdentifierIs404 ==
    \A r \in Reqs :
        LET t == tasks[r] IN
        (t.pc = "done" /\ CallOutcome(t, "nvd") = "non200") => StatusOf(t) = 404

\* C2: when the primary-database fetch fails, the call ends in a failure
\* response without a record: no payload in the response, no record
\* compiled, and no call issued after the failed one.
C2_PrimaryFailureIsFatal ==
    \A r \in Reqs :
        LET t == tasks[r] IN
        CallOutcome(t, "nvd") \in {"non200", "raise"} =>
            /\ t.pc = "done"
            /\ StatusOf(t) # 200
            /\ IsNone(The(t.response).content)
            /\ IsNone(t.analysis_data)
            /\ IsNone(t.nvd_data) /\ IsNone(t.epss_data)
            /\ IsNone(t.kev_data) /\ IsNone(t.github_advisories)
            /\ Len(t.calls) = 1

C2_Witness ==
    /\ T.pc = "done"
    /\ T.ai_analysis
    /\ CallOutcome(T, "nvd") = "raise"

\* C3: an adapter returns the cache file's content only if the file exists
\* and is less than CacheHours old; called with an absent or expired file
\* it issues the live fetch and returns nothing before the answer; and when
\* the live fetch fails it returns the empty result or raises, never the
\* file's content.
C3_CacheReturnedOnlyWhenFresh ==
    [][\A f \in Feeds :
        /\ (Entered(f) /\ ~IsNone(Data(T', f))) =>
                /\ cache[f].exists
                /\ Age(f) < CacheHours
                /\ cache[f].text = json_dump(f, The(Data(T', f)))
        /\ (Entered(f) /\ (~cache[f].exists \/ Age(f) >= CacheHours)) =>
                /\ T'.pc = f
                /\ IsNone(Data(T', f))
                /\ NewCalls = <<Call(f, "", "")>>
        /\ (Resumed(f) /\ CallOutcome(T', f) # "200") =>
                \/ IsNone(Data(T', f))
                \/ Data(T', f) = Some(EmptyResult(f))
      ]_vars

\* An adapter was called with an expired file that still exists, and waits
\* for the live fetch.
C3_Witness ==
    /\ T.pc = "kev"
    /\ cache.kev.exists
    /\ Age("kev") >= CacheHours
    /\ T.calls[Len(T.calls)] = Call("kev", "", "")

\* C4: once a payload P has been written to the cache file, an adapter call
\* made less than CacheHours after the write returns exactly P and issues
\* no upstream call; a call made CacheHours or more after the write is a
\* miss although the file still exists.
C4_RoundTripWithinWindow ==
    [][\A f \in Feeds :
        Entered(f) =>
            /\ \A P \in Payloads(f) :
                    (cache[f] = write_cache(NoFile, json_dump(f, P), cache[f].mtime, "ok").file
                        /\ Age(f) < CacheHours) =>
                            /\ Data(T', f) = Some(P)
                            /\ ~Called(T', f)
            /\ (cache[f].exists /\ Age(f) >= CacheHours) =>
                    /\ IsNone(Data(T', f))
                    /\ T'.pc = f
                    /\ NewCalls = <<Call(f, "", "")>>
                    /\ cache'[f] = cache[f]
      ]_vars

\* The known-exploited adapter answered from a file written three hours ago.
C4_Witness ==
    /\ T.pc = "github"
    /\ ~Called(T, "kev")
    /\ \E P \in KevPayloads : T.kev_data = Some(P)
    /\ Age("kev") = CacheHours - 1

\* C5 as stated: whenever an adapter called with an absent or expired file
\* completes its live fetch, the cache file has been overwritten and is
\* valid for a fresh window.
C5_RefetchAlwaysOverwrites ==
    [][\A f \in Feeds :
        Resumed(f) =>
            /\ cache'[f].exists
            /\ cache'[f].mtime = now
            /\ fetch_cached_begin(cache'[f], now).kind = "return"
      ]_vars

\* C5 as amended: an adapter called with an absent or expired file issues
\* the live fetch; when upstream answers 200 and the adapter returns, the
\* file holds the returned payload, written now, and every call in the next
\* CacheHours hours is a hit returning it, a call CacheHours later a miss;
\* when upstream answers otherwise or the request fails, the file is left
\* as it was.
C5_RefetchOverwritesOn200 ==
    [][\A f \in Feeds :
        /\ (Entered(f) /\ ~is_cache_valid(cache[f], now)) =>
                T'.pc = f /\ NewCalls = <<Call(f, "", "")>>
        /\ (Resumed(f) /\ CallOutcome(T', f) = "200" /\ ~IsNone(Data(T', f))) =>
                LET v == The(Data(T', f)) IN
                /\ cache'[f] = [exists |-> TRUE, text |-> json_dump(f, v), mtime |-> now]
                /\ \A d \in 0..(CacheHours - 1) :
                        fetch_cached_begin(cache'[f], now + d) = Returned(v)
                /\ fetch_cached_begin(cache'[f], now + CacheHours) = Awaits
        /\ (Resumed(f) /\ CallOutcome(T', f) # "200") => cache'[f] = cache[f]
      ]_vars

\* A live fetch made at CacheHours or later was answered 200 and cached.
C5_Witness ==
    /\ CallOutcome(T, "kev") = "200"
    /\ ~IsNone(T.kev_data)
    /\ cache.kev.exists
    /\ cache.kev.mtime >= CacheHours
    /\ cache.kev.mtime = now

\* C6: a failed fetch of the known-exploited or the advisory feed (a
\* non-200 answer or a transport failure) is not fatal: the record is
\* returned with that feed's field absent, provided the primary database
\* had the identifier.
C6_FeedFailureNonFatal ==
    \A r \in Reqs :
        LET t == tasks[r] IN
        (/\ t.pc = "done"
         /\ CallOutcome(t, "nvd") = "200"
         /\ CallOutcome(t, "epss") \in {"200", "non200"}
         /\ \E f \in Feeds : CallOutcome(t, f) \in {"non200", "raise"}) =>
            /\ StatusOf(t) = 200
            /\ CallOutcome(t, "kev") \in {"non200", "raise"} => IsNone(RecordOf(t).kev)
            /\ CallOutcome(t, "github") \in {"non200", "raise"} => IsNone(RecordOf(t).github)

\* C7: an undecodable cache file is a miss (the adapter goes on to the
\* live fetch), and a failed write after a live fetch answered 200 still
\* returns the fetched payload.
C7_CacheErrorsAbsorbed ==
    [][\A f \in Feeds :
        /\ (Entered(f) /\ is_cache_valid(cache[f], now) /\ ~json_load(cache[f].text).ok) =>
                T'.pc = f /\ NewCalls = <<Call(f, "", "")>>
        /\ (Resumed(f) /\ CallOutcome(T', f) = "200") => ~IsNone(Data(T', f))
      ]_vars

\* Enrichment failed: no enrichment call was made, or the last one did not
\* bring a usable answer.
EnrichFailed(t) ==
    LET ai == EnrichCalls(t) IN
    \/ ai = <<>>
    \/ LET last == ai[Len(ai)] IN
       ~ \/ last.api = "ollama_generate" /\ last.outcome = "200"
         \/ last.api \in {"responses", "chat_completions"} /\ last.outcome = "json"

\* C8: when all four feeds answered and enrichment was requested, the call
\* returns 200 with the record, its feed payloads as fetched, whatever
\* happened to the enrichment; a failed enrichment leaves its reason in
\* ai_analysis.
C8_EnrichmentFailureNeverAborts ==
    \A r \in Reqs :
        LET t == tasks[r] IN
        (t.pc = "done" /\ t.ai_analysis /\ ~IsNone(t.github_advisories)) =>
            /\ StatusOf(t) = 200
            /\ ~IsNone(The(t.response).content)
            /\ RecordOf(t).cve_id = t.cve_id
            /\ RecordOf(t).nvd = The(t.nvd_data)
            /\ RecordOf(t).epss = The(t.epss_data)
            /\ RecordOf(t).kev = kev_entry(The(t.kev_data), t.cve_id)
            /\ RecordOf(t).github = github_entry(The(t.github_advisories), t.cve_id)
            /\ ~IsNone(RecordOf(t).ai_analysis)
            /\ EnrichFailed(t) =>
                    LET a == The(RecordOf(t).ai_analysis) IN
                    a.message # "" \/ a.risk_assessment # ""

\* The fallback request raised too, and the record came back with the error.
C8_Witness ==
    /\ T.pc = "done"
    /\ StatusOf(T) = 200
    /\ CallOutcome(T, "responses") = "raise"
    /\ CallOutcome(T, "chat_completions") = "raise"
    /\ The(RecordOf(T).ai_analysis).error = Some(TRUE)
    /\ ~IsNone(RecordOf(T).kev)

\* C9: with provider chatgpt and no API key, perform_ai_analysis returns
\* in the same run an error dict with the configuration message, and
\* issues no call.
C9_NoKeyNoCall ==
    [][(EnrichStep /\ ai_config.provider = "chatgpt" /\ IsNone(ai_config.api_key)) =>
            /\ T'.pc = "done"
            /\ T'.calls = T.calls
            /\ LET a == The(RecordOf(T').ai_analysis) IN
               /\ a.py = "dict"
               /\ a.error = Some(TRUE)
               /\ a.message = "ChatGPT API key not configured"
      ]_vars

C9_Witness ==
    /\ T.pc = "done"
    /\ StatusOf(T) = 200
    /\ ~IsNone(RecordOf(T).ai_analysis)
    /\ The(RecordOf(T).ai_analysis).message = "ChatGPT API key not configured"
    /\ EnrichCalls(T) = <<>>

\* C10: with provider chatgpt and an API key, a failed responses request
\* (an SDK exception or an answer without output_text) is followed by the
\* chat-completions request before anything is returned: the run issues
\* exactly these two calls in this order, and an error result that follows
\* a responses request follows both calls.
C10_FallbackBeforeError ==
    [][(EnrichStep /\ ai_config.provider = "chatgpt" /\ ~IsNone(ai_config.api_key)) =>
            LET a == The(RecordOf(T').ai_analysis)
                two == /\ Len(NewCalls) = 2
                       /\ NewCalls[1].api = "responses"
                       /\ NewCalls[2].api = "chat_completions"
                       /\ NewCalls[2].outcome # "pending"
            IN
            /\ T'.pc = "done"
            /\ NewCalls # <<>> => NewCalls[1].api = "responses"
            /\ (NewCalls # <<>> /\ NewCalls[1].outcome \in {"raise", "empty"}) => two
            /\ (NewCalls # <<>> /\ a.error = Some(TRUE)) => two
      ]_vars

\* Both requests raised and the error dict was returned.
C10_Witness ==
    /\ T.pc = "done"
    /\ Len(EnrichCalls(T)) = 2
    /\ EnrichCalls(T)[1].api = "responses" /\ EnrichCalls(T)[1].outcome = "empty"
    /\ EnrichCalls(T)[2].api = "chat_completions" /\ EnrichCalls(T)[2].outcome = "raise"
    /\ The(RecordOf(T).ai_analysis).error = Some(TRUE)

\* The text the last backendB call of t returned
LastText(t) == The(The(RecordOf(t).ai_analysis).raw_response)

\* C11: whenever the responses or the chat-completions request returns a
\* text that json.loads rejects, the call returns 200 and ai_analysis is a
\* dict with error False, the text itself as raw_response, a summary that
\* is the whole text when it has at most SummaryChars characters and else
\* its first SummaryChars characters followed by an ellipsis, and the
\* "Unable to parse" marker of the path taken as risk_assessment.
C11_UnparsableTextIsDegraded ==
    \A r \in Reqs :
        LET t == tasks[r]
            ai == EnrichCalls(t)
        IN
        (t.pc = "done" /\ ai # <<>> /\ ai[Len(ai)].outcome = "not_json") =>
            /\ StatusOf(t) = 200
            /\ LET a == The(RecordOf(t).ai_analysis) IN
               /\ a.py = "dict"
               /\ a.error = Some(FALSE)
               /\ ~IsNone(a.raw_response)
               /\ IsNone(LastText(t).json)
               /\ ~IsNone(a.summary)
               /\ LastText(t).len <= SummaryChars =>
                        The(a.summary) = [chars |-> LastText(t).len, ellipsis |-> FALSE]
               /\ LastText(t).len > SummaryChars =>
                        The(a.summary) = [chars |-> SummaryChars, ellipsis |-> TRUE]
               /\ ai[Len(ai)].api = "responses" =>
                        a.risk_assessment = "Unable to parse structured response"
               /\ ai[Len(ai)].api = "chat_completions" =>
                        a.risk_assessment =
                            "Unable to parse structured response - Chat completions used"

\* The fallback returned prose of exactly SummaryChars characters.
C11_Witness ==
    /\ T.pc = "done"
    /\ CallOutcome(T, "responses") = "raise"
    /\ CallOutcome(T, "chat_completions") = "not_json"
    /\ LastText(T).len = SummaryChars
    /\ The(The(RecordOf(T).ai_analysis).summary) = [chars |-> SummaryChars, ellipsis |-> FALSE]

\* C12: a call with ai_analysis false never reaches the enrichment and
\* issues no call to an AI backend; when the primary database had the
\* identifier and the record is returned, its ai_analysis is None.
C12_NoEnrichmentUnlessRequested ==
    \A r \in Reqs :
        LET t == tasks[r] IN
        (t.pc # "idle" /\ ~t.ai_analysis) =>
            /\ t.pc \notin {"enrich", "ollama_tags", "ollama_generate"}
            /\ EnrichCalls(t) = <<>>
            /\ (t.pc = "done" /\ StatusOf(t) = 200) =>
                    /\ CallOutcome(t, "nvd") = "200"
                    /\ IsNone(RecordOf(t).ai_analysis)

\* A record was returned without enrichment while the local backend was
\* configured.
C12_Witness ==
    /\ T.pc = "done"
    /\ ~T.ai_analysis
    /\ StatusOf(T) = 200
    /\ IsNone(RecordOf(T).ai_analysis)
    /\ ai_config.provider = "ollama"

\* C13: every result of the enrichment, from either backend, carries the
\* key "error" telling whether the provider reported an error.
C13_ResultCarriesErrorFlag ==
    \A r \in Reqs :
        LET t == tasks[r] IN
        (t.pc = "done" /\ StatusOf(t) = 200 /\ t.ai_analysis) =>
            ~IsNone(The(RecordOf(t).ai_analysis).error)

\* Every configuration ai_config may hold
Configs == ConfigInputs \cup {DefaultConfig(key) : key \in EnvKeys}

\* C14: the values one enrichment call reads from ai_config (the provider
\* at dispatch, the URL of the probe, the model name looked up in the
\* probe's answer, the URL and the model name of the generation) are those
\* of one configuration.
C14_OneConfigurationPerCall ==
    \A r \in Reqs :
        LET t == tasks[r] IN
        Called(t, "ollama_tags") =>
            \E cfg \in Configs :
                /\ cfg.provider = "ollama"
                /\ t.calls[Min(CallsTo(t, "ollama_tags"))].url = cfg.ollama_url
                /\ Called(t, "ollama_generate") =>
                        LET g == t.calls[Min(CallsTo(t, "ollama_generate"))] IN
                        g.url = cfg.ollama_url /\ g.model = cfg.model_name
                /\ (t.pc = "done" /\ The(RecordOf(t).ai_analysis).model # "") =>
                        The(RecordOf(t).ai_analysis).model = cfg.model_name
                /\ (t.pc = "done" /\ The(RecordOf(t).ai_analysis).url # "") =>
                        The(RecordOf(t).ai_analysis).url = cfg.ollama_url

\* The external calls of the pipeline
Apis ==
    {"nvd", "epss", "kev", "github", "ollama_tags", "ollama_generate",
     "responses", "chat_completions"}

\* C16: within one analyze_cve call each external call is issued at most
\* once, whatever its outcome.
C16_NoRetry ==
    \A r \in Reqs : \A api \in Apis : Cardinality(CallsTo(tasks[r], api)) <= 1

\* A call ended after a feed answered non-200 and the probe raised: six
\* calls, each a different one.
C16_Witness ==
    /\ T.pc = "done"
    /\ CallOutcome(T, "epss") = "non200"
    /\ CallOutcome(T, "github") = "non200"
    /\ CallOutcome(T, "ollama_tags") = "raise"
    /\ Len(T.calls) = 5

\* C17: the record's kev is the first entry of the known-exploited list
\* whose cveID is the identifier, character for character, and None when
\* there is none; github is the first advisory one of whose cves has the
\* identifier as number, and None when there is none; with no match the
\* record is returned all the same.
C17_FirstExactMatchOrNone ==
    \A r \in Reqs :
        LET t == tasks[r]
            vulns == The(t.kev_data).vulnerabilities
            advs == The(t.github_advisories)
            KevHit(i) == vulns[i].cveID = t.cve_id
            GithubHit(i) == \E k \in 1..Len(advs[i].cves) : advs[i].cves[k].number = t.cve_id
        IN
        ~IsNone(t.github_advisories) =>
            /\ t.pc \in {"done", "enrich", "ollama_tags", "ollama_generate"}
            /\ t.pc = "done" => StatusOf(t) = 200
            /\ LET rec == The(t.analysis_data) IN
               /\ IsNone(rec.kev) <=> ~ \E i \in 1..Len(vulns) : KevHit(i)
               /\ \A i \in 1..Len(vulns) :
                        (KevHit(i) /\ \A j \in 1..(i - 1) : ~KevHit(j)) => rec.kev = Some(vulns[i])
               /\ IsNone(rec.github) <=> ~ \E i \in 1..Len(advs) : GithubHit(i)
               /\ \A i \in 1..Len(advs) :
                        (GithubHit(i) /\ \A j \in 1..(i - 1) : ~GithubHit(j)) =>
                            rec.github = Some(advs[i])

\* The list had two entries for the identifier and the first one is in the
\* record; the first advisory had no identifier and the second is in the
\* record.
C17_Witness ==
    /\ T.pc = "done"
    /\ StatusOf(T) = 200
    /\ Len(The(T.kev_data).vulnerabilities) = 2
    /\ RecordOf(T).kev = Some(KevEntry("CVE-2021-44228", 1))
    /\ Len(The(T.github_advisories)) = 2
    /\ RecordOf(T).github = Some(The(T.github_advisories)[2])

\* C18: the record analyze_cve returns has as cve_id the identifier of the
\* request, character for character, the one the primary database was
\* asked for, with or without enrichment.
C18_IdentifierVerbatim ==
    \A r \in Reqs :
        LET t == tasks[r] IN
        (t.pc = "done" /\ StatusOf(t) = 200) =>
            /\ RecordOf(t).cve_id = t.cve_id
            /\ RecordOf(t).cve_id = t.calls[1].url
            /\ t.calls[1].api = "nvd"

\* A lower-case identifier came back in lower case after enrichment.
C18_Witness ==
    /\ T.pc = "done"
    /\ StatusOf(T) = 200
    /\ T.ai_analysis
    /\ T.calls[1].url = "cve-2021-44228"
    /\ RecordOf(T).cve_id = "cve-2021-44228"

\* C19: the API key load_env_config took from the environment stays the
\* key of ai_config until a configuration update brings a key of its own.
C19_EnvKeyStaysDefault ==
    [][(ai_config.api_key = Some("sk-env") /\ ai_config' # ai_config) =>
            ~IsNone(ai_config'.api_key)
      ]_vars

\* This step resumes adapter f of request r at the answer of its live fetch.
ResumedBy(r, f) == tasks[r].pc = f /\ tasks'[r].pc # f

\* C15: with analyze_cve calls running concurrently on one cache file, the
\* file is at every point absent or the complete dump of one fetched
\* payload; an adapter that finds the file valid reads a complete document;
\* and after an adapter has written, the file holds what that adapter
\* fetched, whichever other adapter wrote before it.
C15_CacheFileNeverPartial ==
    [][\A f \in Feeds :
        /\ cache'[f].exists => \E P \in Payloads(f) : cache'[f].text = json_dump(f, P)
        /\ is_cache_valid(cache'[f], now') => json_load(cache'[f].text).ok
        /\ \A r \in Reqs, P \in Payloads(f) :
                (ResumedBy(r, f) /\ CallOutcome(tasks'[r], f) = "200"
                    /\ Data(tasks'[r], f) = Some(P)) =>
                        cache'[f].text = json_dump(f, P)
      ]_vars

\* What a prompt shows for a missing value
Placeholders == {"Unknown", "Not available"}

\* The first vulnerability of the record the prompt of t was built from
FirstVuln(t) ==
    LET vulns == The(t.nvd_data).vulnerabilities IN
    IF vulns # <<>> THEN vulns[1] ELSE Vulnerability(<<>>, None)

\* The record has no value for key in the cvssData of any schema version
NoCvss(t, key) ==
    \A m \in {FirstVuln(t).cvssMetricV40, FirstVuln(t).cvssMetricV31,
               FirstVuln(t).cvssMetricV3} :
        IsNone(m) \/ m = Some(<<>>) \/ IsNone(The(m)[1][key])

\* C20: in the prompt of either variant, a value the record does not have
\* (description, CVSS score, severity, CVSS vector, exploit score) shows as
\* "Unknown" or "Not available", and no shown value is empty.
C20_MissingFieldsShowPlaceholder ==
    \A r \in Reqs :
        LET t == tasks[r]
            p == The(t.prompt)
            v == FirstVuln(t)
            data == The(t.epss_data).data
        IN
        ~IsNone(t.prompt) =>
            /\ (v.descriptions = <<>> \/ v.descriptions[1] = None) =>
                    p.description \in Placeholders
            /\ NoCvss(t, "baseScore") => p.cvss_score \in Placeholders
            /\ NoCvss(t, "baseSeverity") => p.severity \in Placeholders
            /\ NoCvss(t, "vectorString") => p.cvss_vector \in Placeholders
            /\ (data = <<>> \/ data[1].epss = None) => p.epss_score \in Placeholders
            /\ "" \notin {p.description, p.cvss_score, p.severity, p.cvss_vector, p.epss_score}

\* The metrics of the newest scoring schema the entry has (None: it has none)
Newest(vuln) ==
    IF ~IsNone(vuln.cvssMetricV40) THEN vuln.cvssMetricV40
    ELSE IF ~IsNone(vuln.cvssMetricV31) THEN vuln.cvssMetricV31
    ELSE vuln.cvssMetricV3

\* C21: whenever a prompt is built from a record, both builders show the
\* same CVSS score, severity and vector for that record, the prompt built
\* is the one of its builder, and the values shown are those of the newest
\* scoring schema the record has metrics of.
C21_NewestSchemaWins ==
    \A r \in Reqs :
        LET t == tasks[r]
            rec == The(t.analysis_data)
            text == create_analysis_prompt(rec)
            json == create_analysis_prompt_json(rec)
            newest == Newest(FirstVuln(t))
        IN
        ~IsNone(t.prompt) =>
            /\ text.cvss_score = json.cvss_score
            /\ text.severity = json.severity
            /\ text.cvss_vector = json.cvss_vector
            /\ The(t.prompt) = IF The(t.prompt).variant = "json" THEN json ELSE text
            /\ (~IsNone(newest) /\ newest # Some(<<>>)) =>
                    /\ text.cvss_score = Get(The(newest)[1].baseScore, "Unknown")
                    /\ text.severity = Get(The(newest)[1].baseSeverity, "Unknown")
                    /\ text.cvss_vector = Get(The(newest)[1].vectorString, "")

\* C22: with provider chatgpt and an API key, whatever the two requests
\* bring, the value perform_ai_analysis returns is a dict.
C22_ResultIsMapping ==
    [][(EnrichStep /\ ai_config.provider = "chatgpt" /\ ~IsNone(ai_config.api_key)) =>
            /\ T'.pc = "done"
            /\ StatusOf(T') = 200
            /\ The(RecordOf(T').ai_analysis).py = "dict"
      ]_vars

\* C23: the generation is requested only after the probe of /api/tags
\* answered 200 with a list that has the model name the request is for;
\* when the probe raised, answered non-200 or listed no such model, the
\* call returns a str that says so and no generation was requested.
C23_GenerationOnlyAfterProbe ==
    \A r \in Reqs :
        LET t == tasks[r]
            a == The(RecordOf(t).ai_analysis)
        IN
        /\ Called(t, "ollama_generate") =>
                /\ CallOutcome(t, "ollama_tags") = "200"
                /\ Min(CallsTo(t, "ollama_tags")) < Min(CallsTo(t, "ollama_generate"))
                /\ ~IsNone(t.available_models)
                /\ InSeq(t.calls[Min(CallsTo(t, "ollama_generate"))].model,
                         The(t.available_models))
        /\ (t.pc = "done" /\ CallOutcome(t, "ollama_tags") \in {"raise", "non200"}) =>
                /\ ~Called(t, "ollama_generate")
                /\ StatusOf(t) = 200
                /\ a.py = "str"
                /\ a.message \in {"Cannot connect to Ollama. Error",
                                  "Ollama service is not running"}
        /\ (t.pc = "done" /\ CallOutcome(t, "ollama_tags") = "200"
                /\ ~Called(t, "ollama_generate")) =>
                /\ StatusOf(t) = 200
                /\ a.py = "str"
                /\ a.message = "Model not found"
                /\ ~InSeq(a.model, The(t.available_models))
        /\ Cardinality(CallsTo(t, "ollama_generate")) <= 1

\* The endpoint listed a model, not the configured one, and the call
\* ended without a generation request.
C23_Witness ==
    /\ T.pc = "done"
    /\ CallOutcome(T, "ollama_tags") = "200"
    /\ T.available_models = Some(<<"llama3">>)
    /\ The(RecordOf(T).ai_analysis).model = "mistral"
    /\ ~Called(T, "ollama_generate")

\* C24: with provider chatgpt and an API key, the chat-completions request
\* is issued only after the responses request raised or came back without
\* a text; when the responses request returns a text, JSON or not, the
\* run ends after that one call, a text that is no JSON giving the
\* degraded dict of the responses path.
C24_FallbackOnlyOnFailure ==
    [][(EnrichStep /\ ai_config.provider = "chatgpt" /\ ~IsNone(ai_config.api_key)) =>
            LET a == The(RecordOf(T').ai_analysis) IN
            /\ T'.pc = "done"
            /\ \A i \in 1..Len(NewCalls) :
                    NewCalls[i].api = "chat_completions" =>
                        /\ i = 2
                        /\ NewCalls[1].api = "responses"
                        /\ NewCalls[1].outcome \in {"raise", "empty"}
            /\ (NewCalls # <<>> /\ NewCalls[1].outcome \in {"json", "not_json"}) =>
                    /\ Len(NewCalls) = 1
                    /\ NewCalls[1].api = "responses"
            /\ (NewCalls # <<>> /\ NewCalls[1].outcome = "not_json") =>
                    /\ a.error = Some(FALSE)
                    /\ a.risk_assessment = "Unable to parse structured response"
      ]_vars

\* The responses request returned prose and the call ended with the
\* degraded dict after that one request.
C24_Witness ==
    /\ T.pc = "done"
    /\ StatusOf(T) = 200
    /\ Len(EnrichCalls(T)) = 1
    /\ EnrichCalls(T)[1].api = "responses"
    /\ EnrichCalls(T)[1].outcome = "not_json"
    /\ The(RecordOf(T).ai_analysis).risk_assessment = "Unable to parse structured response"

\* C25: update_config installs the body it is given whatever its provider;
\* with a provider that is neither ollama nor chatgpt, perform_ai_analysis
\* returns in the same run the error dict "AI analysis not configured" and
\* issues no call, and the record is returned with its feed payloads.
C25_UnknownProviderNotConfigured ==
    [][/\ \A config \in ConfigInputs : update_config(config) => ai_config' = config
       /\ (EnrichStep /\ ai_config.provider \notin {"ollama", "chatgpt"}) =>
            /\ T'.pc = "done"
            /\ NewCalls = <<>>
            /\ EnrichCalls(T') = <<>>
            /\ StatusOf(T') = 200
            /\ RecordOf(T') =
                    [The(T.analysis_data) EXCEPT
                        !.ai_analysis = Some(ErrorDict("AI analysis not configured", ""))]
            /\ RecordOf(T').cve_id = T.cve_id
            /\ RecordOf(T').nvd = The(T.nvd_data)
            /\ RecordOf(T').kev = kev_entry(The(T.kev_data), T.cve_id)
      ]_vars

\* The provider "claude" was installed and a record came back with the
\* error dict.
C25_Witness ==
    /\ ai_config.provider = "claude"
    /\ T.pc = "done"
    /\ StatusOf(T) = 200
    /\ RecordOf(T).ai_analysis = Some(ErrorDict("AI analysis not configured", ""))
    /\ EnrichCalls(T) = <<>>

====
